---- MODULE Spec2Model ----
(***************************************************************************)
(* The binding layer of node-quic-client (lib/index.ts): Connection,       *)
(* PartialStream and Stream objects, the new-stream bridge of rawConnect,  *)
(* and the asynchronous calls they forward to the native adapter.          *)
(* The native adapter (lib.node) is modelled from its documented contract. *)
(***************************************************************************)
EXTENDS Integers, Sequences, FiniteSets, TLC

\* Bounds of the model.
MaxConns == 1
MaxStreams == 1
MaxHandles == 2
MaxCalls == 2
MaxInits == 2
MaxEvents == 2

\* Raw stream handles.  Streams opened while a behaviour runs take the handles
\* up to MaxStreams; the others are for streams established beforehand.
Conns == 1..MaxConns
Handles == 1..MaxHandles
Packets == {<<>>, <<7, 8>>}
Chunks == {<<1>>, <<2>>}

\* The objects callbacks are registered for.
Objects == ({"Stream"} \X Handles) \cup ({"Connection"} \X Conns)

VARIABLES
  conn,     \* per connection: binding-layer state and engine-side closed flag
  engine,   \* per raw stream handle: the adapter's view of the stream
  partial,  \* per raw stream handle: the PartialStream object
  stream,   \* per raw stream handle: the Stream object built by initialize
  inits,    \* per raw stream handle: record of the initialize calls made
  notify,   \* per raw stream handle: progress of the new-stream dispatch
  calls,    \* the asynchronous calls made so far, in the order of issue
  dispatched, \* per object: the events the engine dispatched for it, in order
  delivered   \* per object: the host callbacks invoked for it, in order

vars == <<conn, engine, partial, stream, inits, notify, calls, dispatched,
          delivered>>

----------------------------------------------------------------------------
\* Objects

\* A connection: the state of the connect call, the state of the adapter's
\* connect operation, and whether the engine has closed the connection.
NoConnection == [st |-> "init", adapter |-> "none", closed |-> FALSE]
OpenConnection == [st |-> "open", adapter |-> "ok", closed |-> FALSE]

NoEngine == [exists |-> FALSE, conn |-> 0, uni |-> FALSE, inbound |-> FALSE,
             closed |-> FALSE, writeShut |-> FALSE, callbacks |-> "none"]
NoPartial == [exists |-> FALSE, connection |-> 0, writeClosed |-> FALSE,
              initialized |-> FALSE]
NoStream == [exists |-> FALSE, connection |-> 0, writeClosed |-> FALSE,
             details |-> [id |-> 0, is0rtt |-> FALSE], holder |-> "none"]
NoInits == [calls |-> 0, ok |-> 0, adapter |-> 0, last |-> "none"]

\* new PartialStream(connection, partialStream, isUnidirectional)
PartialStreamNoFlag(connection, isUnidirectional) ==
  [exists |-> TRUE, connection |-> connection, writeClosed |-> FALSE,
   initialized |-> FALSE]

NewPartialStream(connection, isUnidirectional) ==
  [exists |-> TRUE, connection |-> connection, writeClosed |-> isUnidirectional,
   initialized |-> FALSE]

\* lib.stream_details(stream): the id and the 0-RTT flag of raw stream h, fixed
\* for the life of the stream
StreamDetails(h) == [id |-> h, is0rtt |-> h % 2 = 1]

\* new Stream(connection, stream, isUnidirectional) on raw stream h; holder is
\* who receives it
NewStream(connection, h, isUnidirectional, holder) ==
  [exists |-> TRUE, connection |-> connection, writeClosed |-> isUnidirectional,
   details |-> StreamDetails(h), holder |-> holder]

\* PartialStream.initialize: the guard `if (this.initialized) throw`
NeverInitialized(p) == FALSE

AlreadyInitialized(p) == p.initialized

\* PartialStream.initialize: `this.initialized = true`
LeaveUninitialized(p) == p

MarkInitialized(p) == [p EXCEPT !.initialized = TRUE]

\* PartialStream.initialize(options), as the code runs it.  initThrows and
\* detailsThrows are the environment's choice: lib.initialize_stream raises,
\* lib.stream_details (in the Stream constructor) raises.
\*   result   what the call returns or throws
\*   p        the PartialStream afterwards
\*   adapter  lib.initialize_stream was invoked
\*   attached lib.initialize_stream registered the three callbacks
\*   built    a Stream was constructed and returned
Initialize(p, initThrows, detailsThrows) ==
  IF AlreadyInitialized(p)
    THEN [result |-> "AlreadyInitialized", p |-> p, adapter |-> FALSE,
          attached |-> FALSE, built |-> FALSE]
  ELSE IF initThrows
    THEN [result |-> "AdapterError", p |-> p, adapter |-> TRUE,
          attached |-> FALSE, built |-> FALSE]
  ELSE IF detailsThrows
    THEN [result |-> "AdapterError", p |-> MarkInitialized(p), adapter |-> TRUE,
          attached |-> TRUE, built |-> FALSE]
  ELSE [result |-> "ok", p |-> MarkInitialized(p), adapter |-> TRUE,
        attached |-> TRUE, built |-> TRUE]

\* The record of the initialize calls made on one handle, after one more call
\* with outcome o: calls made, Streams returned, lib.initialize_stream
\* invocations, and the latest call's result.
LogInit(i, o) ==
  [calls |-> i.calls + 1,
   ok |-> i.ok + (IF o.result = "ok" THEN 1 ELSE 0),
   adapter |-> i.adapter + (IF o.adapter THEN 1 ELSE 0),
   last |-> o.result]

\* The effect of one initialize call by `who` ("host" or "bridge") with
\* callbacks `cbs` ("host" or "noop") on the PartialStream p of handle h, whose
\* adapter-side record is eng; o is the call's outcome.
ApplyInitialize(h, p, eng, who, cbs, o) ==
  /\ partial' = [partial EXCEPT ![h] = o.p]
  /\ engine' = [engine EXCEPT ![h] =
                  IF o.attached THEN [eng EXCEPT !.callbacks = cbs] ELSE eng]
  /\ stream' = IF o.built
                 THEN [stream EXCEPT ![h] =
                         NewStream(p.connection, h, p.writeClosed, who)]
                 ELSE stream
  /\ inits' = [inits EXCEPT ![h] = LogInit(inits[h], o)]

----------------------------------------------------------------------------
\* State

Init ==
  /\ conn = [c \in Conns |-> NoConnection]
  /\ engine = [h \in Handles |-> NoEngine]
  /\ partial = [h \in Handles |-> NoPartial]
  /\ stream = [h \in Handles |-> NoStream]
  /\ inits = [h \in Handles |-> NoInits]
  /\ notify = [h \in Handles |-> "none"]
  /\ calls = <<>>
  /\ dispatched = [o \in Objects |-> <<>>]
  /\ delivered = [o \in Objects |-> <<>>]

\* A new-stream dispatch is running the host's onStream handler.
InHandler == \E h \in Handles : notify[h] = "inHandler"

\* Host code runs to completion: promise continuations and engine events are
\* only dispatched when no handler is on the stack.
Idle == ~InHandler

FreeHandles == {h \in Handles : h <= MaxStreams /\ ~engine[h].exists}
NextHandle == CHOOSE h \in FreeHandles : \A g \in FreeHandles : h <= g

----------------------------------------------------------------------------
\* rawConnect

\* rawConnect up to `await lib.connect(...)`
Connect(c) ==
  /\ Idle
  /\ conn[c].st = "init"
  /\ \A b \in Conns : b < c => conn[b].st # "init"
  /\ conn' = [conn EXCEPT ![c].st = "connecting", ![c].adapter = "running"]
  /\ UNCHANGED <<engine, partial, stream, inits, notify, calls,
                 dispatched, delivered>>

\* rawConnect: `const connection = await lib.connect(...)`, whose failure
\* rejects the connect call
ConnectIgnoresFailure(ok) == "open"

ConnectResult(ok) == IF ok THEN "open" ELSE "failed"

\* rawConnect resumes: `const fullConnection = new Connection(connection)`,
\* or the adapter's connect failed and rawConnect rejects.
ConnectDone(c, ok) ==
  /\ Idle
  /\ conn[c].st = "connecting"
  /\ conn' = [conn EXCEPT ![c].st = ConnectResult(ok),
                          ![c].adapter = IF ok THEN "ok" ELSE "err"]
  /\ UNCHANGED <<engine, partial, stream, inits, notify, calls,
                 dispatched, delivered>>

\* The adapter's record of an inbound stream when it hands the raw partial
\* stream to handleNewStream: no callbacks have been registered for it.
InboundEngineWired(c, isUnidirectional) ==
  [exists |-> TRUE, conn |-> c, uni |-> isUnidirectional, inbound |-> TRUE,
   closed |-> FALSE, writeShut |-> isUnidirectional, callbacks |-> "host"]

InboundEngine(c, isUnidirectional) ==
  [exists |-> TRUE, conn |-> c, uni |-> isUnidirectional, inbound |-> TRUE,
   closed |-> FALSE, writeShut |-> isUnidirectional, callbacks |-> "none"]

\* handleNewStream up to `options.onStream.call(fullConnection, partialStream)`.
\* Before rawConnect has resumed, fullConnection is in its temporal dead zone
\* and reading it raises a ReferenceError.
HandleNewStream(c, isUnidirectional) ==
  /\ Idle
  /\ conn[c].st \in {"connecting", "open"}
  /\ ~conn[c].closed
  /\ FreeHandles # {}
  /\ LET h == NextHandle IN
       /\ engine' = [engine EXCEPT ![h] = InboundEngine(c, isUnidirectional)]
       /\ IF conn[c].st = "open"
            THEN /\ partial' = [partial EXCEPT ![h] = NewPartialStream(c, isUnidirectional)]
                 /\ notify' = [notify EXCEPT ![h] = "inHandler"]
            ELSE /\ partial' = partial
                 /\ notify' = [notify EXCEPT ![h] = "ReferenceError"]
  /\ UNCHANGED <<conn, stream, inits, calls, dispatched, delivered>>

\* The host calls partialStream.initialize(options) on a PartialStream its
\* onStream handler was given: inside the handler, or later (retained).
HostInitialize(h, initThrows, detailsThrows) ==
  /\ partial[h].exists
  /\ engine[h].inbound
  /\ notify[h] # "none"
  /\ inits[h].calls < MaxInits
  /\ ApplyInitialize(h, partial[h], engine[h], "host", "host",
                     Initialize(partial[h], initThrows, detailsThrows))
  /\ UNCHANGED <<conn, notify, calls, dispatched, delivered>>

\* A Stream.close of handle h, or a Connection.close of connection c, has
\* resolved successfully.
CloseResolved(h, c) ==
  \E j \in 1..Len(calls) :
    /\ calls[j].st = "ok"
    /\ \/ h # 0 /\ calls[j].op = "close" /\ calls[j].h = h
       \/ c # 0 /\ calls[j].op = "connClose" /\ calls[j].c = c

\* An optional argument is <<>> when it is not given and <<v>> when v is given.
\* `errorCode ?? 0`, `reason ?? ""`, `errorCode = 0`
Default(opt, d) == IF opt = <<>> THEN d ELSE opt[1]

\* Stream.close: the arguments handed to lib.close_stream, one record per
\* invocation
CloseStreamZero(errorCode) == <<[code |-> 0]>>

CloseStreamArgs(errorCode) == <<[code |-> Default(errorCode, 0)]>>

\* A call record: an asynchronous method call and what became of it.
\*   op, by, h, c, packet, code: the method, its caller, its object, its
\*     arguments (packet: the packet of a write, the optional reason of a
\*     Connection.close; code: the optional error code of a close)
\*   st, err: the state of the promise the call returned
\*   adapter, sent: the state of the adapter operation it started, and the
\*     arguments handed to the adapter, one element per invocation
\*   afterClose: a close of the same object had resolved when the call was made
NewCall(op, by, h, c, packet, code, st, adapter, sent) ==
  [op |-> op, by |-> by, h |-> h, c |-> c, packet |-> packet, code |-> code,
   st |-> st, err |-> "none", adapter |-> adapter, sent |-> sent,
   afterClose |-> CloseResolved(h, c)]

\* handleNewStream: `if (!partialStream.isInitialized)`
AutoCloseNever(p) == FALSE

NeedsAutoClose(p) == ~p.initialized

\* handleNewStream after the handler has returned: the rest of the function.
HandlerReturn(h, initThrows, detailsThrows) ==
  /\ notify[h] = "inHandler"
  /\ IF NeedsAutoClose(partial[h])
       THEN LET o == Initialize(partial[h], initThrows, detailsThrows) IN
            /\ ApplyInitialize(h, partial[h], engine[h], "bridge", "noop", o)
            /\ IF o.built
                 THEN /\ calls' = Append(calls,
                                    NewCall("close", "bridge", h, 0, <<>>, <<>>,
                                            "pending", "running",
                                            CloseStreamArgs(<<>>)))
                      /\ notify' = [notify EXCEPT ![h] = "Uninitialized"]
                 ELSE /\ calls' = calls
                      /\ notify' = [notify EXCEPT ![h] = o.result]
       ELSE /\ notify' = [notify EXCEPT ![h] = "returned"]
            /\ UNCHANGED <<engine, partial, stream, inits, calls>>
  /\ UNCHANGED <<conn, dispatched, delivered>>

\* handleNewStream: `options.onStream.call(fullConnection, partialStream)` is
\* not inside a try block, so when the handler throws nothing of the rest of
\* the function runs for the stream of handle h.
BridgeClosesAfterThrow(h) ==
  IF NeedsAutoClose(partial[h])
    THEN /\ ApplyInitialize(h, partial[h], engine[h], "bridge", "noop",
                            Initialize(partial[h], FALSE, FALSE))
         /\ calls' = Append(calls,
                       NewCall("close", "bridge", h, 0, <<>>, <<>>,
                               "pending", "running", CloseStreamArgs(<<>>)))
    ELSE UNCHANGED <<engine, partial, stream, inits, calls>>

BridgeAfterThrow(h) == UNCHANGED <<engine, partial, stream, inits, calls>>

\* The host's onStream handler throws: handleNewStream is left by the exception.
HandlerThrow(h) ==
  /\ notify[h] = "inHandler"
  /\ notify' = [notify EXCEPT ![h] = "HandlerError"]
  /\ BridgeAfterThrow(h)
  /\ UNCHANGED <<conn, dispatched, delivered>>

----------------------------------------------------------------------------
\* The native adapter, from its documented contract: the results an adapter
\* operation may give in the current engine state.  An operation may always
\* fail with an engine error; on a closed stream or connection the documented
\* failures are the only results.

ConnClosed(h) == conn[engine[h].conn].closed

\* write(streamHandle, bytes) -> fails(StreamClosed|ConnectionClosed|FlowControlViolation)
AdapterWrite(h) ==
  IF engine[h].closed \/ ConnClosed(h)
    THEN (IF engine[h].closed THEN {"StreamClosed"} ELSE {})
           \cup (IF ConnClosed(h) THEN {"ConnectionClosed"} ELSE {})
    ELSE {"ok", "EngineError"}

\* closeStream(streamHandle, errorCode): a second close is adapter-defined
AdapterCloseStream(h) ==
  IF ConnClosed(h) THEN {"ok", "ConnectionClosed"}
  ELSE IF engine[h].closed THEN {"ok", "StreamClosed"}
  ELSE {"ok", "EngineError"}

\* closeWrite(streamHandle): StreamClosed on an already fully-closed stream
AdapterCloseWrite(h) ==
  IF engine[h].closed THEN {"StreamClosed"}
  ELSE IF ConnClosed(h) THEN {"ConnectionClosed"}
  ELSE {"ok", "EngineError"}

\* openStream(connectionHandle) -> streamHandle | fails(ConnectionClosed)
AdapterCreateStream(c) ==
  IF conn[c].closed THEN {"ConnectionClosed"}
  ELSE (IF FreeHandles # {} THEN {"ok"} ELSE {}) \cup {"EngineError"}

\* closeConnection(connectionHandle, errorCode, reasonBytes?)
AdapterCloseConnection(c) ==
  IF conn[c].closed THEN {"ok", "ConnectionClosed"} ELSE {"ok", "EngineError"}

----------------------------------------------------------------------------
\* Stream and Connection methods

HostCalls == {k \in 1..Len(calls) : calls[k].by = "host"}
MayCall == Cardinality(HostCalls) < MaxCalls
HostHolds(h) == stream[h].exists /\ stream[h].holder = "host"
Pending(k, op) == k \in 1..Len(calls) /\ calls[k].op = op /\ calls[k].st = "pending"

\* An awaited adapter operation completed with result out: the call's record.
Settle(call, out, result) ==
  [call EXCEPT !.adapter = IF out = "ok" THEN "ok" ELSE "err",
               !.st = IF result = "ok" THEN "ok" ELSE "err",
               !.err = IF result = "ok" THEN "none" ELSE result]

\* Stream.write: `if (packet.length > 0)`
WriteForwardsAll(packet) == TRUE

WriteForwards(packet) == Len(packet) > 0

\* Stream.write: the lib.write_stream invocations of one call, each with the
\* bytes handed over
WriteSends(packet) == <<packet>>

\* Stream.write: `await lib.write_stream(...)`, whose failure rejects the call
WriteSwallows(out) == "ok"

WriteResult(out) == out

\* Stream.write up to the await: the packet length is the only thing tested
WriteChecksFlag(h, packet) ==
  /\ MayCall
  /\ HostHolds(h)
  /\ calls' = Append(calls,
       IF stream[h].writeClosed
         THEN [NewCall("write", "host", h, 0, packet, <<>>, "err", "none", <<>>)
                 EXCEPT !.err = "StreamClosed"]
       ELSE IF WriteForwards(packet)
         THEN NewCall("write", "host", h, 0, packet, <<>>, "pending", "running",
                      WriteSends(packet))
         ELSE NewCall("write", "host", h, 0, packet, <<>>, "ok", "none", <<>>))
  /\ UNCHANGED <<conn, engine, partial, stream, inits, notify,
                 dispatched, delivered>>

\* Stream.write up to the await
Write(h, packet) ==
  /\ MayCall
  /\ HostHolds(h)
  /\ calls' = Append(calls,
       IF WriteForwards(packet)
         THEN NewCall("write", "host", h, 0, packet, <<>>, "pending", "running",
                      WriteSends(packet))
         ELSE NewCall("write", "host", h, 0, packet, <<>>, "ok", "none", <<>>))
  /\ UNCHANGED <<conn, engine, partial, stream, inits, notify,
                 dispatched, delivered>>

\* Stream.write resumes after lib.write_stream
WriteDone(k, out) ==
  /\ Idle
  /\ Pending(k, "write")
  /\ out \in AdapterWrite(calls[k].h)
  /\ calls' = [calls EXCEPT ![k] = Settle(@, out, WriteResult(out))]
  /\ UNCHANGED <<conn, engine, partial, stream, inits, notify,
                 dispatched, delivered>>

\* Stream.getConnection: `return this.connection`
GetConnection(s) == s.connection

\* Stream.close: `await lib.close_stream(this.stream, errorCode)`; the Stream
\* object's own fields afterwards
CloseResetsFlag(s) == [s EXCEPT !.writeClosed = FALSE]

CloseDropsConnection(s) == [s EXCEPT !.connection = 0]

AfterClose(s) == s

\* Stream.close up to the await
Close(h, errorCode) ==
  /\ MayCall
  /\ HostHolds(h)
  /\ calls' = Append(calls,
       NewCall("close", "host", h, 0, <<>>, errorCode, "pending", "running",
               CloseStreamArgs(errorCode)))
  /\ UNCHANGED <<conn, engine, partial, stream, inits, notify,
                 dispatched, delivered>>

\* handleNewStream: `.close().catch(() => {})`, the promise the bridge's
\* close ends in
CatchRethrows(out) == out

Catch(out) == "ok"

\* Stream.close resumes after lib.close_stream; the bridge's auto-close goes
\* on into its `.catch(() => {})`
CloseDone(k, out) ==
  /\ Idle
  /\ Pending(k, "close")
  /\ out \in AdapterCloseStream(calls[k].h)
  /\ calls' = [calls EXCEPT ![k] =
                 Settle(@, out, IF calls[k].by = "bridge" THEN Catch(out) ELSE out)]
  /\ engine' = IF out = "ok"
                 THEN [engine EXCEPT ![calls[k].h].closed = TRUE]
                 ELSE engine
  /\ stream' = [stream EXCEPT ![calls[k].h] = AfterClose(@)]
  /\ UNCHANGED <<conn, partial, inits, notify, dispatched, delivered>>

\* Stream.closeWrite: `if (this.writeClosed) return`
CloseWriteSkips(s) == s.writeClosed

\* Stream.closeWrite: `await lib.close_write(this.stream); this.writeClosed = true`
CloseWriteFlagAlways(s, out) == [s EXCEPT !.writeClosed = TRUE]

CloseWriteFlag(s, out) ==
  IF out = "ok" THEN [s EXCEPT !.writeClosed = TRUE] ELSE s

\* Stream.closeWrite up to the await
CloseWrite(h) ==
  /\ MayCall
  /\ HostHolds(h)
  /\ calls' = Append(calls,
       IF CloseWriteSkips(stream[h])
         THEN NewCall("closeWrite", "host", h, 0, <<>>, <<>>, "ok", "none", <<>>)
         ELSE NewCall("closeWrite", "host", h, 0, <<>>, <<>>, "pending", "running",
                      <<>>))
  /\ UNCHANGED <<conn, engine, partial, stream, inits, notify,
                 dispatched, delivered>>

\* Stream.closeWrite resumes after lib.close_write
CloseWriteDone(k, out) ==
  /\ Idle
  /\ Pending(k, "closeWrite")
  /\ out \in AdapterCloseWrite(calls[k].h)
  /\ calls' = [calls EXCEPT ![k] = Settle(@, out, out)]
  /\ engine' = IF out = "ok"
                 THEN [engine EXCEPT ![calls[k].h].writeShut = TRUE]
                 ELSE engine
  /\ stream' = [stream EXCEPT ![calls[k].h] = CloseWriteFlag(@, out)]
  /\ UNCHANGED <<conn, partial, inits, notify, dispatched, delivered>>

\* Connection.createStream: `await lib.create_stream(this.connection)`, whose
\* failure rejects the call before any PartialStream is made
CreateStreamIgnoresFailure(out) == TRUE

CreateStreamProceeds(out) == out = "ok"

\* Connection.createStream up to the await
CreateStream(c) ==
  /\ MayCall
  /\ conn[c].st = "open"
  /\ calls' = Append(calls,
       NewCall("createStream", "host", 0, c, <<>>, <<>>, "pending", "running", <<>>))
  /\ UNCHANGED <<conn, engine, partial, stream, inits, notify,
                 dispatched, delivered>>

\* Connection.createStream resumes after lib.create_stream:
\* `return new PartialStream(this, partialStream, false).initialize(options)`
CreateStreamDone(k, out, initThrows, detailsThrows) ==
  /\ Idle
  /\ Pending(k, "createStream")
  /\ out \in AdapterCreateStream(calls[k].c)
  /\ IF CreateStreamProceeds(out) /\ FreeHandles # {}
       THEN LET h == NextHandle
                p == NewPartialStream(calls[k].c, FALSE)
                eng == [exists |-> TRUE, conn |-> calls[k].c, uni |-> FALSE,
                        inbound |-> FALSE, closed |-> out # "ok",
                        writeShut |-> FALSE, callbacks |-> "none"]
                o == Initialize(p, initThrows, detailsThrows)
            IN /\ ApplyInitialize(h, p, eng, "host", "host", o)
               /\ calls' = [calls EXCEPT ![k] = [Settle(@, out, o.result) EXCEPT !.h = h]]
       ELSE /\ calls' = [calls EXCEPT ![k] = Settle(@, out, out)]
            /\ UNCHANGED <<engine, partial, stream, inits>>
  /\ UNCHANGED <<conn, notify, dispatched, delivered>>

\* TextEncoder.encode: the UTF-8 bytes of a string, given as its sequence of
\* characters (code points below 2048)
RECURSIVE TextEncode(_)
TextEncode(str) ==
  IF str = <<>> THEN <<>>
  ELSE LET ch == Head(str)
       IN (IF ch < 128 THEN <<ch>>
           ELSE <<192 + (ch \div 64), 128 + (ch % 64)>>) \o TextEncode(Tail(str))

\* Connection.close: `fullReason.length > 0 ? new TextEncoder().encode(fullReason) : null`;
\* the buffer is <<>> for null and <<bytes>> otherwise
ReasonBufferPadded(fullReason) == <<TextEncode(fullReason) \o <<0>>>>

ReasonBuffer(fullReason) ==
  IF Len(fullReason) > 0 THEN <<TextEncode(fullReason)>> ELSE <<>>

\* Connection.close: the arguments handed to lib.close_connection
CloseConnectionArgs(errorCode, reason) ==
  <<[code |-> Default(errorCode, 0),
     buffer |-> ReasonBuffer(Default(reason, <<>>))]>>

\* The reason bytes the adapter transmits for a buffer: none for null
ReasonBytes(buffer) == IF buffer = <<>> THEN <<>> ELSE buffer[1]

\* Connection.close up to the await
ConnClose(c, errorCode, reason) ==
  /\ MayCall
  /\ conn[c].st = "open"
  /\ calls' = Append(calls,
       NewCall("connClose", "host", 0, c, reason, errorCode, "pending", "running",
               CloseConnectionArgs(errorCode, reason)))
  /\ UNCHANGED <<conn, engine, partial, stream, inits, notify,
                 dispatched, delivered>>

\* Connection.close resumes after lib.close_connection, which terminates all
\* streams of the connection, then the connection
ConnCloseDone(k, out) ==
  /\ Idle
  /\ Pending(k, "connClose")
  /\ out \in AdapterCloseConnection(calls[k].c)
  /\ calls' = [calls EXCEPT ![k] = Settle(@, out, out)]
  /\ conn' = IF out = "ok" THEN [conn EXCEPT ![calls[k].c].closed = TRUE] ELSE conn
  /\ engine' = IF out = "ok"
                 THEN [h \in Handles |->
                         IF engine[h].exists /\ engine[h].conn = calls[k].c
                           THEN [engine[h] EXCEPT !.closed = TRUE]
                           ELSE engine[h]]
                 ELSE engine
  /\ UNCHANGED <<partial, stream, inits, notify, dispatched, delivered>>

----------------------------------------------------------------------------
\* Callbacks: the wrappers handed to lib.initialize_stream and lib.connect

\* The binding a wrapper closes over has not been assigned yet: reading it
\* raises a ReferenceError
TDZ == <<"TDZ", 0>>

\* initialize: `const fullStream = new Stream(...)`, which the three wrappers
\* made by that call read when they are invoked
ThisOfInitialize(h) == <<"PartialStream", h>>

FullStream(h) == IF stream[h].exists THEN <<"Stream", h>> ELSE TDZ

\* rawConnect: `const fullConnection = new Connection(connection)`, which the
\* wrappers handed to lib.connect read when they are invoked
FullConnection(c) == IF conn[c].st = "open" THEN <<"Connection", c>> ELSE TDZ

\* A wrapper `(...args) => options.onX.apply(target, args)` is invoked by the
\* adapter with event e: the host callbacks invoked, with receiver and
\* arguments.  `callbacks` tells whose options the wrapper forwards to.
WrapperDrops(callbacks, target, e) == <<>>

WrapperRepeats(callbacks, target, e) ==
  IF target = TDZ \/ callbacks # "host" THEN <<>>
  ELSE <<[ev |-> e.ev, bytes |-> e.bytes, this |-> target],
         [ev |-> e.ev, bytes |-> e.bytes, this |-> target]>>

Wrapper(callbacks, target, e) ==
  IF target = TDZ \/ callbacks # "host" THEN <<>>
  ELSE <<[ev |-> e.ev, bytes |-> e.bytes, this |-> target]>>

\* The events the engine emits, from the bridge's documented contract: data
\* events carry bytes, a close or error event is the last one of its object.
DataEvents == [ev : {"data"}, bytes : Chunks]
TerminalEvents == [ev : {"close", "error"}, bytes : {<<>>}]
StreamEvents == DataEvents \cup TerminalEvents

Ended(o) == \E i \in 1..Len(dispatched[o]) : dispatched[o][i] \in TerminalEvents

RECURSIVE EventsOf(_)
EventsOf(os) ==
  IF os = {} THEN 0
  ELSE LET o == CHOOSE x \in os : TRUE
       IN Len(dispatched[o]) + EventsOf(os \ {o})

MayDispatch == EventsOf(Objects) < MaxEvents

\* The adapter can invoke only callbacks that lib.initialize_stream gave it.
HasCallbacks(eng) == eng.callbacks # "none"

\* The engine dispatches event e of stream h on the host loop: the adapter
\* invokes the wrapper that initialize registered for it.
StreamEvent(h, e) ==
  /\ Idle
  /\ MayDispatch
  /\ engine[h].exists
  /\ HasCallbacks(engine[h])
  /\ ~Ended(<<"Stream", h>>)
  /\ dispatched' = [dispatched EXCEPT ![<<"Stream", h>>] = Append(@, e)]
  /\ delivered' = [delivered EXCEPT ![<<"Stream", h>>] =
                     @ \o Wrapper(engine[h].callbacks, FullStream(h), e)]
  /\ UNCHANGED <<conn, engine, partial, stream, inits, notify, calls>>

\* The engine dispatches the close or error event of connection c on the host
\* loop: the adapter invokes the wrapper rawConnect handed to lib.connect.
\* The connection is gone afterwards.
ConnEvent(c, e) ==
  /\ Idle
  /\ MayDispatch
  /\ conn[c].st \in {"connecting", "open"}
  /\ ~Ended(<<"Connection", c>>)
  /\ dispatched' = [dispatched EXCEPT ![<<"Connection", c>>] = Append(@, e)]
  /\ delivered' = [delivered EXCEPT ![<<"Connection", c>>] =
                     @ \o Wrapper("host", FullConnection(c), e)]
  /\ conn' = [conn EXCEPT ![c].closed = TRUE]
  /\ UNCHANGED <<engine, partial, stream, inits, notify, calls>>

Outcomes == {"ok", "EngineError", "StreamClosed", "ConnectionClosed"}
CallIds == 1..(MaxCalls + MaxStreams)
\* The arguments of the close calls: no error code and no reason given, or
\* any of a few.
ErrorCodes == {<<>>}
NoReason == {<<>>}
AnyErrorCodes == {<<>>, <<0>>, <<3>>}
AnyReasons == {<<>>, <<<<>>>>, <<<<97>>>>, <<<<233, 97>>>>}

Next ==
  \/ \E c \in Conns : Connect(c)
  \/ \E c \in Conns, ok \in BOOLEAN : ConnectDone(c, ok)
  \/ \E c \in Conns, u \in BOOLEAN : HandleNewStream(c, u)
  \/ \E h \in Handles, i \in BOOLEAN, d \in BOOLEAN : HostInitialize(h, i, d)
  \/ \E h \in Handles, i \in BOOLEAN, d \in BOOLEAN : HandlerReturn(h, i, d)
  \/ \E h \in Handles : HandlerThrow(h)
  \/ \E h \in Handles, packet \in Packets : Write(h, packet)
  \/ \E k \in CallIds, out \in Outcomes : WriteDone(k, out)
  \/ \E h \in Handles, code \in ErrorCodes : Close(h, code)
  \/ \E k \in CallIds, out \in Outcomes : CloseDone(k, out)
  \/ \E h \in Handles : CloseWrite(h)
  \/ \E k \in CallIds, out \in Outcomes : CloseWriteDone(k, out)
  \/ \E c \in Conns : CreateStream(c)
  \/ \E k \in CallIds, out \in Outcomes, i \in BOOLEAN, d \in BOOLEAN :
       CreateStreamDone(k, out, i, d)
  \/ \E c \in Conns, code \in ErrorCodes, r \in NoReason : ConnClose(c, code, r)
  \/ \E k \in CallIds, out \in Outcomes : ConnCloseDone(k, out)
  \/ \E h \in Handles, e \in StreamEvents : StreamEvent(h, e)
  \/ \E c \in Conns, e \in TerminalEvents : ConnEvent(c, e)

Spec == Init /\ [][Next]_vars

\* The bridge alone: connecting, inbound streams and initialize.
NextBridge ==
  \/ \E c \in Conns : Connect(c)
  \/ \E c \in Conns, ok \in BOOLEAN : ConnectDone(c, ok)
  \/ \E c \in Conns, u \in BOOLEAN : HandleNewStream(c, u)
  \/ \E h \in Handles, i \in BOOLEAN, d \in BOOLEAN : HostInitialize(h, i, d)
  \/ \E h \in Handles, i \in BOOLEAN, d \in BOOLEAN : HandlerReturn(h, i, d)
  \/ \E h \in Handles : HandlerThrow(h)
  \/ \E k \in CallIds, out \in Outcomes : CloseDone(k, out)

SpecBridge == Init /\ [][NextBridge]_vars

\* The construction of stream objects on an open connection: inbound streams
\* through the bridge and outbound streams through createStream.
InitOpen ==
  /\ conn = [c \in Conns |-> IF c = 1 THEN OpenConnection ELSE NoConnection]
  /\ engine = [h \in Handles |-> NoEngine]
  /\ partial = [h \in Handles |-> NoPartial]
  /\ stream = [h \in Handles |-> NoStream]
  /\ inits = [h \in Handles |-> NoInits]
  /\ notify = [h \in Handles |-> "none"]
  /\ calls = <<>>
  /\ dispatched = [o \in Objects |-> <<>>]
  /\ delivered = [o \in Objects |-> <<>>]

NextConstruct ==
  \/ \E c \in Conns, u \in BOOLEAN : HandleNewStream(c, u)
  \/ \E h \in Handles, i \in BOOLEAN, d \in BOOLEAN : HostInitialize(h, i, d)
  \/ \E h \in Handles, i \in BOOLEAN, d \in BOOLEAN : HandlerReturn(h, i, d)
  \/ \E c \in Conns : CreateStream(c)
  \/ \E k \in CallIds, out \in Outcomes, i \in BOOLEAN, d \in BOOLEAN :
       CreateStreamDone(k, out, i, d)

SpecConstruct == InitOpen /\ [][NextConstruct]_vars

\* The methods of established objects: the first connection is open and every
\* stream handle is either unused or carries a Stream the host holds, made by
\* createStream or by initialize in the onStream handler.
StreamKinds == {"outbound", "inboundBidi", "inboundUni"}

EstablishedEngine(c, kind) ==
  [exists |-> TRUE, conn |-> c, uni |-> kind = "inboundUni",
   inbound |-> kind # "outbound", closed |-> FALSE,
   writeShut |-> kind = "inboundUni", callbacks |-> "host"]

InitStreams ==
  /\ conn = [c \in Conns |-> IF c = 1 THEN OpenConnection ELSE NoConnection]
  /\ calls = <<>>
  /\ dispatched = [o \in Objects |-> <<>>]
  /\ delivered = [o \in Objects |-> <<>>]
  /\ \E n \in 0..MaxStreams :
     \E own \in [1..n -> {1}], kind \in [1..n -> StreamKinds] :
       /\ engine = [h \in Handles |->
                      IF h <= n THEN EstablishedEngine(own[h], kind[h]) ELSE NoEngine]
       /\ partial = [h \in Handles |->
                       IF h <= n
                         THEN MarkInitialized(
                                NewPartialStream(own[h], kind[h] = "inboundUni"))
                         ELSE NoPartial]
       /\ stream = [h \in Handles |->
                      IF h <= n
                        THEN NewStream(own[h], h, kind[h] = "inboundUni", "host")
                        ELSE NoStream]
       /\ inits = [h \in Handles |->
                     IF h <= n
                       THEN [calls |-> 1, ok |-> 1, adapter |-> 1, last |-> "ok"]
                       ELSE NoInits]
       /\ notify = [h \in Handles |->
                      IF h <= n /\ kind[h] # "outbound" THEN "returned" ELSE "none"]

NextStreams ==
  \/ \E h \in Handles, packet \in Packets : Write(h, packet)
  \/ \E k \in CallIds, out \in Outcomes : WriteDone(k, out)
  \/ \E h \in Handles, code \in ErrorCodes : Close(h, code)
  \/ \E k \in CallIds, out \in Outcomes : CloseDone(k, out)
  \/ \E h \in Handles : CloseWrite(h)
  \/ \E k \in CallIds, out \in Outcomes : CloseWriteDone(k, out)
  \/ \E c \in Conns : CreateStream(c)
  \/ \E k \in CallIds, out \in Outcomes, i \in BOOLEAN, d \in BOOLEAN :
       CreateStreamDone(k, out, i, d)
  \/ \E c \in Conns, code \in ErrorCodes, r \in NoReason : ConnClose(c, code, r)
  \/ \E k \in CallIds, out \in Outcomes : ConnCloseDone(k, out)

SpecStreams == InitStreams /\ [][NextStreams]_vars

\* Inbound streams and the events of their connection: the first connection
\* is open, inbound streams arrive, the host or the bridge initializes them,
\* and the engine dispatches stream and connection events.
\* One kind of data event is enough where the bytes do not matter.
InboundEvents == [ev : {"data"}, bytes : {<<1>>}] \cup TerminalEvents

NextInbound ==
  \/ \E c \in Conns : HandleNewStream(c, FALSE)
  \/ \E h \in Handles, i \in BOOLEAN, d \in BOOLEAN : HostInitialize(h, i, d)
  \/ \E h \in Handles, i \in BOOLEAN, d \in BOOLEAN : HandlerReturn(h, i, d)
  \/ \E h \in Handles, e \in InboundEvents : StreamEvent(h, e)
  \/ \E c \in Conns, e \in TerminalEvents : ConnEvent(c, e)

SpecInbound == InitOpen /\ [][NextInbound]_vars

\* The callback bridge on established streams: the first connection is open,
\* every handle carries nothing or a Stream the host holds, and the engine
\* dispatches events.
InitEvents ==
  /\ conn = [c \in Conns |-> IF c = 1 THEN OpenConnection ELSE NoConnection]
  /\ calls = <<>>
  /\ dispatched = [o \in Objects |-> <<>>]
  /\ delivered = [o \in Objects |-> <<>>]
  /\ \E kind \in [Handles -> {"none"} \cup StreamKinds] :
       LET est(h) == kind[h] # "none" IN
       /\ engine = [h \in Handles |->
                      IF est(h) THEN EstablishedEngine(1, kind[h]) ELSE NoEngine]
       /\ partial = [h \in Handles |->
                       IF est(h)
                         THEN MarkInitialized(
                                NewPartialStream(1, kind[h] = "inboundUni"))
                         ELSE NoPartial]
       /\ stream = [h \in Handles |->
                      IF est(h) THEN NewStream(1, h, kind[h] = "inboundUni", "host")
                      ELSE NoStream]
       /\ inits = [h \in Handles |->
                     IF est(h)
                       THEN [calls |-> 1, ok |-> 1, adapter |-> 1, last |-> "ok"]
                       ELSE NoInits]
       /\ notify = [h \in Handles |->
                      IF est(h) /\ kind[h] # "outbound" THEN "returned" ELSE "none"]

NextEvents ==
  \/ \E h \in Handles, e \in StreamEvents : StreamEvent(h, e)
  \/ \E c \in Conns, e \in TerminalEvents : ConnEvent(c, e)

SpecEvents == InitEvents /\ [][NextEvents]_vars

\* The asynchronous calls from connect on: connections are made, streams are
\* made by createStream, and the methods of both are called.
NextCalls ==
  \/ \E c \in Conns : Connect(c)
  \/ \E c \in Conns, ok \in BOOLEAN : ConnectDone(c, ok)
  \/ \E h \in Handles, packet \in Packets : Write(h, packet)
  \/ \E k \in CallIds, out \in Outcomes : WriteDone(k, out)
  \/ \E h \in Handles, code \in ErrorCodes : Close(h, code)
  \/ \E k \in CallIds, out \in Outcomes : CloseDone(k, out)
  \/ \E h \in Handles : CloseWrite(h)
  \/ \E k \in CallIds, out \in Outcomes : CloseWriteDone(k, out)
  \/ \E c \in Conns : CreateStream(c)
  \/ \E k \in CallIds, out \in Outcomes, i \in BOOLEAN, d \in BOOLEAN :
       CreateStreamDone(k, out, i, d)
  \/ \E c \in Conns, code \in AnyErrorCodes, r \in NoReason : ConnClose(c, code, r)
  \/ \E k \in CallIds, out \in Outcomes : ConnCloseDone(k, out)

SpecCalls == Init /\ [][NextCalls]_vars

\* Closing a connection: the first connection is open and Connection.close
\* is called with any of the arguments.
NextConnClose ==
  \/ \E c \in Conns, code \in AnyErrorCodes, r \in AnyReasons : ConnClose(c, code, r)
  \/ \E k \in CallIds, out \in Outcomes : ConnCloseDone(k, out)

SpecConnClose == InitOpen /\ [][NextConnClose]_vars

\* Closing streams: as SpecStreams, with the close methods of a Stream only
\* and any of the error codes.
NextClose ==
  \/ \E h \in Handles, code \in AnyErrorCodes : Close(h, code)
  \/ \E k \in CallIds, out \in Outcomes : CloseDone(k, out)
  \/ \E h \in Handles : CloseWrite(h)
  \/ \E k \in CallIds, out \in Outcomes : CloseWriteDone(k, out)

SpecClose == InitStreams /\ [][NextClose]_vars

----------------------------------------------------------------------------
\* Properties

CallsOf(op, h) == {k \in 1..Len(calls) : calls[k].op = op /\ calls[k].h = h}
Settled(k) == calls[k].st # "pending"

\* The step is an initialize call on the PartialStream of handle h.
InitializeCalled(h) == inits'[h].calls > inits[h].calls

\* C1: of the initialize calls made on one PartialStream, by the host, by the
\* bridge or by both, at most one returns a Stream, and every call made after
\* a successful one fails with the already-initialized error without invoking
\* lib.initialize_stream again.
C1_InitializeOnce ==
  [][\A h \in Handles :
       /\ inits'[h].ok <= 1
       /\ (inits[h].ok >= 1 /\ InitializeCalled(h)) =>
            /\ inits'[h].last = "AlreadyInitialized"
            /\ inits'[h].adapter = inits[h].adapter
            /\ inits'[h].ok = inits[h].ok]_vars

C1_Witness ==
  \E h \in Handles :
    /\ inits[h].ok = 1
    /\ inits[h].calls >= 2
    /\ inits[h].last = "AlreadyInitialized"

\* The step is handleNewStream resuming after the host's onStream handler
\* returned for handle h, the handler not having called initialize.
ReturnedUninitialized(h) ==
  /\ notify[h] = "inHandler"
  /\ notify'[h] \notin {"inHandler", "HandlerError"}
  /\ inits[h].calls = 0

\* The step issues the bridge's close of handle h to the adapter.
BridgeCloseIssued(h) ==
  /\ Len(calls') = Len(calls) + 1
  /\ calls'[Len(calls')].op = "close"
  /\ calls'[Len(calls')].by = "bridge"
  /\ calls'[Len(calls')].h = h
  /\ calls'[Len(calls')].adapter = "running"

\* C2 as stated: when the onStream handler returns without having called
\* initialize, the bridge initializes the stream with no-op callbacks, issues
\* a close of the engine stream and raises the uninitialized-stream error.
C2_AsStated ==
  [][\A h \in Handles :
       ReturnedUninitialized(h) =>
         /\ engine'[h].callbacks = "noop"
         /\ stream'[h].exists
         /\ BridgeCloseIssued(h)
         /\ notify'[h] = "Uninitialized"]_vars

\* C2 amended: when the onStream handler returns without having called
\* initialize, the bridge calls initialize once with no-op callbacks within the
\* same dispatch; when that call returns a Stream the bridge keeps it, issues
\* a close of the engine stream and raises the uninitialized-stream error; when
\* that call raises (lib.initialize_stream or lib.stream_details fails) its
\* exception is raised instead and no close is issued.
C2_AutoClose ==
  [][\A h \in Handles :
       ReturnedUninitialized(h) =>
         /\ inits'[h].calls = 1
         /\ engine'[h].callbacks \in {"none", "noop"}
         /\ IF inits'[h].last = "ok"
              THEN /\ engine'[h].callbacks = "noop"
                   /\ stream'[h].exists /\ stream'[h].holder = "bridge"
                   /\ BridgeCloseIssued(h)
                   /\ notify'[h] = "Uninitialized"
              ELSE /\ ~stream'[h].exists
                   /\ calls' = calls
                   /\ notify'[h] = "AdapterError"]_vars

C2_Witness ==
  \E h \in Handles, k \in 1..Len(calls) :
    /\ notify[h] = "Uninitialized"
    /\ inits[h].calls = 1
    /\ engine[h].callbacks = "noop"
    /\ calls[k].op = "close" /\ calls[k].by = "bridge" /\ calls[k].h = h

\* C3: an inbound stream the bridge auto-closed is never reachable by the
\* host: the Stream the bridge built stays with the bridge, every later
\* initialize call on the retained PartialStream fails with the
\* already-initialized error, and the callbacks attached stay the no-op ones.
C3_AutoClosedUnreachable ==
  \A h \in Handles :
    notify[h] = "Uninitialized" =>
      /\ stream[h].exists /\ stream[h].holder = "bridge"
      /\ engine[h].callbacks = "noop"
      /\ inits[h].ok = 1
      /\ inits[h].last \in {"ok", "AlreadyInitialized"}

C3_Witness ==
  \E h \in Handles :
    /\ notify[h] = "Uninitialized"
    /\ inits[h].last = "AlreadyInitialized"
    /\ stream[h].holder = "bridge"

\* The lib.close_write operations of handle h that were started and did not
\* fail.
HalfCloses(h) == {k \in CallsOf("closeWrite", h) : calls[k].adapter \in {"running", "ok"}}

\* C4 as stated: the closeWrite calls made on one Stream perform the adapter's
\* half-close at most once in total, whether the calls follow each other or
\* overlap, and writeIsClosed is true after a call has completed.
C4_AsStated ==
  \A h \in Handles :
    /\ Cardinality(HalfCloses(h)) <= 1
    /\ \A k \in CallsOf("closeWrite", h) : calls[k].st = "ok" => stream[h].writeClosed

\* C5: writeIsClosed of a Stream is monotone: once true it is true in every
\* later state, whatever calls and adapter completions follow.
C5_WriteClosedMonotone ==
  [][\A h \in Handles :
       (stream[h].exists /\ stream[h].writeClosed) =>
         (stream'[h].exists /\ stream'[h].writeClosed)]_vars

C5_Witness ==
  \E h \in Handles, j \in 1..Len(calls), k \in 1..Len(calls) :
    /\ j < k
    /\ calls[j].op = "closeWrite" /\ calls[j].h = h /\ calls[j].adapter = "ok"
    /\ calls[k].op = "close" /\ calls[k].h = h /\ calls[k].st = "ok"
    /\ stream[h].writeClosed

\* The step settles call k, a closeWrite that was suspended in lib.close_write.
CloseWriteSettles(k) ==
  /\ calls[k].op = "closeWrite"
  /\ calls[k].st = "pending"
  /\ calls'[k].st # "pending"

\* C6: closeWrite sets writeIsClosed only after lib.close_write has succeeded:
\* a failed half-close is returned to the caller as a failure and leaves
\* writeIsClosed as it was, a successful one sets it, nothing else sets it,
\* and a closeWrite made while writeIsClosed is false issues the half-close.
C6_FlagAfterSuccess ==
  [][/\ \A k \in 1..Len(calls) :
          CloseWriteSettles(k) =>
            /\ calls'[k].adapter = "err" =>
                 /\ calls'[k].st = "err"
                 /\ stream'[calls[k].h].writeClosed = stream[calls[k].h].writeClosed
            /\ calls'[k].adapter = "ok" =>
                 /\ calls'[k].st = "ok"
                 /\ stream'[calls[k].h].writeClosed
     /\ \A h \in Handles :
          (stream[h].exists /\ ~stream[h].writeClosed /\ stream'[h].writeClosed) =>
            \E k \in 1..Len(calls) :
              CloseWriteSettles(k) /\ calls[k].h = h /\ calls'[k].adapter = "ok"
     /\ (Len(calls') > Len(calls) /\ calls'[Len(calls')].op = "closeWrite") =>
          (calls'[Len(calls')].adapter = "running"
             <=> ~stream[calls'[Len(calls')].h].writeClosed)]_vars

C6_Witness ==
  \E h \in Handles, j \in 1..Len(calls), k \in 1..Len(calls) :
    /\ j < k
    /\ calls[j].op = "closeWrite" /\ calls[j].h = h
    /\ calls[j].st = "err" /\ calls[j].adapter = "err"
    /\ calls[k].op = "closeWrite" /\ calls[k].h = h /\ calls[k].adapter = "ok"
    /\ stream[h].writeClosed

\* What the engine reported for handle h: an inbound unidirectional stream.
ReportedUnidirectional(h) == engine[h].inbound /\ engine[h].uni

\* C7: on a stream the engine reports as unidirectional, writeIsClosed is true
\* on the PartialStream and on the Stream made from it from construction on;
\* on a stream reported bidirectional and on a stream made by createStream it
\* is false at construction.
C7_WriteClosedAtConstruction ==
  \A h \in Handles :
    /\ partial[h].exists => (partial[h].writeClosed <=> ReportedUnidirectional(h))
    /\ stream[h].exists => (stream[h].writeClosed <=> ReportedUnidirectional(h))

C7_Witness ==
  /\ \E h \in Handles :
       /\ ReportedUnidirectional(h)
       /\ partial[h].writeClosed
       /\ stream[h].exists /\ stream[h].writeClosed

\* C8: a write of a nonzero-length packet invokes lib.write_stream exactly
\* once, with exactly that packet, and completes only after the adapter
\* operation has completed; a write of a zero-length packet does not invoke
\* the adapter and completes without error.
C8_WriteForwarding ==
  \A k \in 1..Len(calls) :
    calls[k].op = "write" =>
      IF Len(calls[k].packet) > 0
        THEN /\ calls[k].sent = <<calls[k].packet>>
             /\ calls[k].adapter # "none"
             /\ Settled(k) => calls[k].adapter \in {"ok", "err"}
        ELSE /\ calls[k].sent = <<>>
             /\ calls[k].adapter = "none"
             /\ calls[k].st = "ok"

C8_Witness ==
  \E j \in 1..Len(calls), k \in 1..Len(calls) :
    /\ calls[j].op = "write" /\ Len(calls[j].packet) > 0 /\ calls[j].st = "ok"
    /\ calls[k].op = "write" /\ Len(calls[k].packet) = 0 /\ calls[k].st = "ok"

\* C9: a createStream call made after a Connection.close of the same
\* Connection has resolved fails with the connection-closed error; no Stream
\* is returned and no callbacks are attached.
C9_CreateAfterClose ==
  \A k \in 1..Len(calls) :
    (calls[k].op = "createStream" /\ calls[k].afterClose /\ Settled(k)) =>
      /\ calls[k].st = "err"
      /\ calls[k].err = "ConnectionClosed"
      /\ calls[k].h = 0

C9_Witness ==
  \E k \in 1..Len(calls) :
    /\ calls[k].op = "createStream"
    /\ calls[k].afterClose
    /\ calls[k].st = "err"

\* C10 as stated: once Stream.close has been called on a Stream, every later
\* write of a nonzero-length packet on it fails with the stream-closed error.
C10_AsStated ==
  \A j \in 1..Len(calls), k \in 1..Len(calls) :
    (/\ j < k
     /\ calls[j].op = "close" /\ calls[k].op = "write" /\ calls[j].h = calls[k].h
     /\ Len(calls[k].packet) > 0
     /\ Settled(k)) =>
      (calls[k].st = "err" /\ calls[k].err = "StreamClosed")

\* C10 amended: once a Stream.close call on a Stream has resolved successfully,
\* every later write of a nonzero-length packet on it fails, with the
\* stream-closed error or, when the connection has been closed as well, the
\* connection-closed error.
C10_WriteAfterClose ==
  \A k \in 1..Len(calls) :
    (/\ calls[k].op = "write"
     /\ calls[k].afterClose
     /\ Len(calls[k].packet) > 0
     /\ Settled(k)) =>
      /\ calls[k].st = "err"
      /\ \/ calls[k].err = "StreamClosed"
         \/ calls[k].err = "ConnectionClosed" /\ ConnClosed(calls[k].h)

C10_Witness ==
  \E k \in 1..Len(calls) :
    /\ calls[k].op = "write"
    /\ calls[k].afterClose
    /\ Len(calls[k].packet) > 0
    /\ calls[k].st = "err" /\ calls[k].err = "StreamClosed"

----------------------------------------------------------------------------
\* Properties of the callback bridge

S(h) == <<"Stream", h>>
K(c) == <<"Connection", c>>

\* C11: for an inbound stream N, no data, close or error event of N is
\* dispatched into the bridge, and none is delivered to a host callback,
\* before the new-stream notification for N has been dispatched and an
\* initialize call for N has registered callbacks; a host callback is
\* delivered only after an initialize call for N has returned a Stream.
C11_NotBeforeInitialize ==
  \A h \in Handles :
    (engine[h].exists /\ engine[h].inbound) =>
      /\ dispatched[S(h)] # <<>> =>
           /\ notify[h] # "none"
           /\ inits[h].calls >= 1
           /\ partial[h].initialized
      /\ delivered[S(h)] # <<>> =>
           /\ inits[h].ok = 1
           /\ stream[h].exists /\ stream[h].holder = "host"

C11_Witness ==
  \E h \in Handles :
    /\ engine[h].inbound
    /\ notify[h] = "returned"
    /\ delivered[S(h)] # <<>>

\* The host holds the Stream of handle h and supplied its callbacks.
HostStream(h) == HostHolds(h) /\ engine[h].callbacks = "host"

\* C12: every host callback of a stream is invoked with the receiver bound to
\* the Stream the initialize or createStream call returned for that stream,
\* from the first event on, and never to another object, whatever events of
\* other streams are delivered in between.
C12_ReceiverIsOwnStream ==
  \A h \in Handles :
    /\ \A i \in 1..Len(delivered[S(h)]) :
         /\ delivered[S(h)][i].this = S(h)
         /\ HostStream(h)
    /\ (HostStream(h) /\ dispatched[S(h)] # <<>>) =>
         /\ delivered[S(h)] # <<>>
         /\ delivered[S(h)][1].this = S(h)
         /\ delivered[S(h)][1].ev = dispatched[S(h)][1].ev

C12_Witness ==
  \E g \in Handles, h \in Handles :
    /\ g # h
    /\ HostStream(g) /\ HostStream(h)
    /\ delivered[S(g)] # <<>> /\ delivered[S(g)][1].this = S(g)
    /\ delivered[S(h)] # <<>> /\ delivered[S(h)][1].this = S(h)

\* C13 as stated: every connection-level event dispatched once lib.connect has
\* been invoked, before or after rawConnect has resumed, invokes the host's
\* callback with the receiver bound to the Connection of that connect call:
\* every new-stream dispatch runs onStream, and every close or error event of
\* the connection is delivered with that receiver.
C13_AsStated ==
  /\ \A h \in Handles : notify[h] # "ReferenceError"
  /\ \A c \in Conns :
       /\ Len(delivered[K(c)]) = Len(dispatched[K(c)])
       /\ \A i \in 1..Len(delivered[K(c)]) : delivered[K(c)][i].this = K(c)

\* A terminal callback, onClose or onError, is among the callbacks in log d.
TerminalDelivered(d) == \E i \in 1..Len(d) : d[i].ev \in {"close", "error"}

\* In log d nothing follows a terminal callback.
TerminalIsLast(d) == \A i \in 1..Len(d) : d[i].ev \in {"close", "error"} => i = Len(d)

\* The step dispatches a new-stream event of connection c.
NewStreamDispatched(c) ==
  \E h \in Handles : notify[h] = "none" /\ notify'[h] # "none" /\ engine'[h].conn = c

IsData(x) == x.ev = "data"
RECURSIVE DataBytes(_)
DataBytes(d) ==
  IF d = <<>> THEN <<>>
  ELSE (IF IsData(Head(d)) THEN <<Head(d).bytes>> ELSE <<>>) \o DataBytes(Tail(d))

\* C15: for a Stream the host holds, the onData invocations are exactly the
\* data events the engine dispatched for the stream: one invocation per event,
\* with the same bytes, in the same order.
C15_DataInOrder ==
  \A h \in Handles :
    HostStream(h) => DataBytes(delivered[S(h)]) = DataBytes(dispatched[S(h)])

C15_Witness ==
  \E h \in Handles :
    /\ HostStream(h)
    /\ Len(dispatched[S(h)]) = 2
    /\ DataBytes(delivered[S(h)]) = <<dispatched[S(h)][1].bytes, dispatched[S(h)][2].bytes>>
    /\ dispatched[S(h)][1].bytes # dispatched[S(h)][2].bytes
    /\ IsData(dispatched[S(h)][2])

----------------------------------------------------------------------------
\* Properties of established objects

\* C16: getConnection() of a Stream is always the Connection that owns it, the
\* one createStream was called on or the one whose new-stream notification
\* delivered its PartialStream, and no write, closeWrite, Stream.close or
\* Connection.close changes it.
C16_GetConnectionStable ==
  [][\A h \in Handles :
       /\ stream'[h].exists =>
            /\ GetConnection(stream'[h]) = engine'[h].conn
            /\ GetConnection(stream'[h]) \in Conns
            /\ \A k \in 1..Len(calls') :
                 (calls'[k].op = "createStream" /\ calls'[k].h = h) =>
                   GetConnection(stream'[h]) = calls'[k].c
       /\ stream[h].exists =>
            GetConnection(stream'[h]) = GetConnection(stream[h])]_vars

C16_Witness ==
  \E h \in Handles, j \in 1..Len(calls), k \in 1..Len(calls) :
    /\ calls[j].op = "close" /\ calls[j].h = h /\ calls[j].st = "ok"
    /\ calls[k].op = "connClose" /\ calls[k].st = "ok"
    /\ GetConnection(stream[h]) = calls[k].c

\* C17: a failure of the adapter operation a call started is returned to the
\* caller as a failure: a connect whose lib.connect failed is rejected, a
\* createStream, write, Stream.close, closeWrite or Connection.close of the
\* host whose adapter operation failed is rejected with an error, none of
\* them completes successfully, and no call invokes the adapter a second time.
C17_FailuresReturned ==
  /\ \A c \in Conns :
       /\ conn[c].adapter = "err" => conn[c].st = "failed"
       /\ conn[c].st = "open" => conn[c].adapter = "ok"
  /\ \A k \in HostCalls :
       /\ calls[k].adapter = "err" => (calls[k].st = "err" /\ calls[k].err # "none")
       /\ calls[k].st = "ok" => calls[k].adapter \in {"ok", "none"}
       /\ Len(calls[k].sent) <= 1

C17_Witness ==
  \E j \in HostCalls, k \in HostCalls :
    /\ calls[j].op = "createStream" /\ calls[j].adapter = "err" /\ calls[j].st = "err"
    /\ calls[k].op = "connClose" /\ calls[k].adapter = "err" /\ calls[k].st = "err"

\* C18: Connection.close hands the adapter error code 0 when none is given and
\* the given one otherwise; the reason transmitted is exactly the UTF-8 bytes
\* of the given reason string, and when the reason is omitted or the empty
\* string no reason buffer is handed over and no reason bytes are sent.
C18_CloseArguments ==
  \A k \in 1..Len(calls) :
    calls[k].op = "connClose" =>
      /\ Len(calls[k].sent) = 1
      /\ calls[k].sent[1].code = (IF calls[k].code = <<>> THEN 0 ELSE calls[k].code[1])
      /\ IF calls[k].packet \in {<<>>, <<<<>>>>}
           THEN /\ calls[k].sent[1].buffer = <<>>
                /\ ReasonBytes(calls[k].sent[1].buffer) = <<>>
           ELSE ReasonBytes(calls[k].sent[1].buffer) = TextEncode(calls[k].packet[1])

C18_Witness ==
  \E j \in 1..Len(calls), k \in 1..Len(calls) :
    /\ calls[j].op = "connClose"
    /\ calls[j].code = <<>> /\ calls[j].packet = <<<<>>>>
    /\ calls[j].sent = <<[code |-> 0, buffer |-> <<>>]>>
    /\ calls[k].op = "connClose"
    /\ calls[k].code = <<3>> /\ calls[k].packet = <<<<233, 97>>>>
    /\ calls[k].sent = <<[code |-> 3, buffer |-> <<<<195, 169, 97>>>>]>>

\* The step settles call k, the close the bridge issued for an uninitialized
\* stream.
BridgeCloseSettles(k) ==
  /\ calls[k].op = "close" /\ calls[k].by = "bridge"
  /\ calls[k].st = "pending"
  /\ calls'[k].adapter # "running"

\* C19: on the auto-close path the close is handed to the adapter in the
\* dispatch that raises the uninitialized-stream error, before the error is
\* raised; when that close fails the failure is swallowed: the promise chain
\* of the bridge resolves, the error raised stays the uninitialized-stream
\* error, and no host call is affected.
C19_AutoCloseSwallowed ==
  [][/\ \A h \in Handles :
          (notify[h] # "Uninitialized" /\ notify'[h] = "Uninitialized") =>
            /\ BridgeCloseIssued(h)
            /\ calls'[Len(calls')].sent = <<[code |-> 0]>>
     /\ \A k \in 1..Len(calls) :
          BridgeCloseSettles(k) =>
            /\ calls'[k].st = "ok" /\ calls'[k].err = "none"
            /\ notify' = notify
            /\ notify[calls[k].h] = "Uninitialized"
            /\ \A j \in 1..Len(calls) : j # k => calls'[j] = calls[j]]_vars

C19_Witness ==
  \E k \in 1..Len(calls) :
    /\ calls[k].op = "close" /\ calls[k].by = "bridge"
    /\ calls[k].adapter = "err"
    /\ calls[k].st = "ok"
    /\ notify[calls[k].h] = "Uninitialized"

\* The step is the issue or the completion of a Stream.close call on handle h.
CloseStep(h) ==
  \/ /\ Len(calls') = Len(calls) + 1
     /\ calls'[Len(calls')].op = "close" /\ calls'[Len(calls')].h = h
  \/ \E k \in 1..Len(calls) :
       /\ calls[k].op = "close" /\ calls[k].h = h
       /\ calls[k].st = "pending" /\ calls'[k].st # "pending"

\* C20: every Stream.close call, the first or a later one, hands one close with
\* its error code, 0 when none is given, to the adapter, and neither the call
\* nor its completion changes writeIsClosed, id, is0rtt or getConnection(); a
\* closeWrite made after a close has resolved, on a Stream whose writeIsClosed
\* is still false, issues the adapter's half-close.
C20_CloseKeepsState ==
  [][/\ \A h \in Handles :
          CloseStep(h) =>
            /\ stream'[h].writeClosed = stream[h].writeClosed
            /\ stream'[h].details = stream[h].details
            /\ GetConnection(stream'[h]) = GetConnection(stream[h])
     /\ Len(calls') > Len(calls) =>
          LET new == calls'[Len(calls')] IN
          /\ new.op = "close" =>
               /\ new.adapter = "running"
               /\ new.sent = <<[code |-> IF new.code = <<>> THEN 0 ELSE new.code[1]]>>
          /\ (new.op = "closeWrite" /\ new.afterClose /\ ~stream[new.h].writeClosed) =>
               new.adapter = "running"]_vars

C20_Witness ==
  \E h \in Handles, j \in 1..Len(calls), k \in 1..Len(calls) :
    /\ j < k
    /\ calls[j].op = "close" /\ calls[j].h = h /\ calls[j].st = "ok"
    /\ calls[j].code = <<3>> /\ calls[j].sent = <<[code |-> 3]>>
    /\ calls[k].op = "closeWrite" /\ calls[k].h = h /\ calls[k].afterClose
    /\ calls[k].adapter = "err"
    /\ ~engine[h].uni /\ ~stream[h].writeClosed

----------------------------------------------------------------------------
\* Properties of failing handlers and failing initialize calls

\* The step is the host's onStream handler throwing in the dispatch of handle h.
HandlerThrew(h) == notify[h] = "inHandler" /\ notify'[h] = "HandlerError"

\* The bridge has made an adapter call of its own for handle h.
BridgeCalled(h) ==
  \/ \E k \in 1..Len(calls) : calls[k].by = "bridge" /\ calls[k].h = h
  \/ stream[h].holder = "bridge"
  \/ engine[h].callbacks = "noop"

\* C21: when the host's onStream handler throws, the dispatch ends with the
\* handler's exception and the bridge does nothing more for the stream: it
\* makes no initialize and no close call, a PartialStream the handler had not
\* initialized stays uninitialized and its engine stream open, and the
\* uninitialized-stream error is raised neither then nor later.
C21_HandlerThrowPropagates ==
  [][\A h \in Handles :
       /\ HandlerThrew(h) =>
            /\ calls' = calls
            /\ inits'[h] = inits[h]
            /\ partial'[h] = partial[h]
            /\ stream'[h] = stream[h]
            /\ engine'[h] = engine[h]
       /\ notify[h] = "HandlerError" => notify'[h] = "HandlerError"
       /\ notify'[h] = "HandlerError" =>
            /\ ~BridgeCalled(h)'
            /\ inits'[h].calls = 0 =>
                 /\ ~partial'[h].initialized
                 /\ ~engine'[h].closed
                 /\ engine'[h].callbacks = "none"]_vars

C21_Witness ==
  \E h \in Handles :
    /\ notify[h] = "HandlerError"
    /\ inits[h].calls = 0
    /\ partial[h].exists /\ ~partial[h].initialized
    /\ engine[h].exists /\ ~engine[h].closed
    /\ calls = <<>>

\* C22 as stated: a PartialStream whose isInitialized is true has returned a
\* Stream to the caller of initialize, and an initialize call that failed in
\* the adapter (lib.initialize_stream or lib.stream_details raised) leaves
\* isInitialized false.
C22_AsStated ==
  \A h \in Handles :
    /\ partial[h].initialized => (inits[h].ok >= 1 /\ stream[h].exists)
    /\ inits[h].last = "AdapterError" => ~partial[h].initialized

\* The step issues a write call / settles write call k.
WriteIssued == Len(calls') = Len(calls) + 1 /\ calls'[Len(calls')].op = "write"
WriteSettles(k) ==
  calls[k].op = "write" /\ calls[k].st = "pending" /\ calls'[k].st # "pending"

\* C23: Stream.write tests nothing but the packet length: a nonzero-length
\* write is handed to the adapter also when writeIsClosed is true, the call
\* succeeds exactly when the adapter operation does, and neither the call nor
\* its completion changes writeIsClosed.
C23_WriteIgnoresFlag ==
  [][/\ WriteIssued =>
          LET new == calls'[Len(calls')] IN
          /\ Len(new.packet) > 0 =>
               /\ new.st = "pending" /\ new.adapter = "running"
               /\ new.sent = <<new.packet>>
          /\ stream'[new.h].writeClosed = stream[new.h].writeClosed
     /\ \A k \in 1..Len(calls) :
          WriteSettles(k) =>
            /\ calls'[k].st = "ok" <=> calls'[k].adapter = "ok"
            /\ calls'[k].st = "err" <=> calls'[k].adapter = "err"
            /\ stream'[calls[k].h].writeClosed = stream[calls[k].h].writeClosed]_vars

C23_Witness ==
  \E k \in 1..Len(calls) :
    /\ calls[k].op = "write"
    /\ ReportedUnidirectional(calls[k].h)
    /\ stream[calls[k].h].writeClosed
    /\ Len(calls[k].packet) > 0
    /\ calls[k].sent = <<calls[k].packet>>
    /\ calls[k].adapter = "err" /\ calls[k].st = "err"

====
